---- MODULE Spec2Model ----
(***************************************************************************)
(* Model of src/create_diagram.py: the draw.io document generator          *)
(* (DiagramGenerator) and the Lambda request handler that drives it.       *)
(*                                                                         *)
(* A Python dict is a record; a key the dict does not hold carries the     *)
(* marker Absent, and subscripting it (d['k']) raises KeyError.  Every     *)
(* attribute of an element is a string, as _create_cell and _create_node   *)
(* store str(v).                                                           *)
(***************************************************************************)
EXTENDS Integers, Sequences, FiniteSets, TLC

\* ------------------------------------------------------------------ bounds
MaxNodes == 2
MaxEdges == 2
ReuseMaxNodes == 1

\* ------------------------------------------------------------------ inputs
Absent == "<absent>"

NodeIds == {"a", "b"}

InputTypes == {"user", "aws.network.elb_application_load_balancer",
               "aws.compute.ec2_auto_scaling", "custom.queue"}

\* The label tells the nodes of a graph apart in the document.
WellFormedNodes == { [id |-> i, label |-> i \o " " \o t, type |-> t] : i \in NodeIds, t \in InputTypes }

MalformedNodes == { [id |-> "b", label |-> "no type", type |-> Absent],
                    [id |-> Absent, label |-> "no id", type |-> "user"],
                    [id |-> "b", label |-> Absent, type |-> "user"] }

NodeValues == WellFormedNodes \cup MalformedNodes

EdgeValues == { [source |-> "a", target |-> "b", label |-> "calls"],
                [source |-> "a", target |-> "a", label |-> Absent],
                [source |-> "ghost", target |-> "b", label |-> Absent] }

SeqsUpTo(S, n) == UNION { [1..k -> S] : k \in 0..n }

Graphs == [nodes : SeqsUpTo(NodeValues, MaxNodes), edges : SeqsUpTo(EdgeValues, MaxEdges)]

ReuseNodeValues == { [id |-> "a", label |-> "a user", type |-> "user"],
                     [id |-> "b", label |-> "b custom.queue", type |-> "custom.queue"],
                     [id |-> "b", label |-> Absent, type |-> "user"],
                     [id |-> Absent, label |-> "no id", type |-> "user"] }

ReuseGraphs == [nodes : SeqsUpTo(ReuseNodeValues, ReuseMaxNodes),
                edges : {<<>>} \cup { <<e>> : e \in EdgeValues }]

NoGraph == [nodes |-> <<>>, edges |-> <<>>]

\* ------------------------------------------------------- str() of numbers
Digits == <<"0", "1", "2", "3", "4", "5", "6", "7", "8", "9">>

RECURSIVE NatStr(_)
NatStr(n) == IF n < 10 THEN Digits[n + 1] ELSE NatStr(n \div 10) \o Digits[(n % 10) + 1]

\* str(n) of a Python int
IntStr(n) == IF n < 0 THEN "-" \o NatStr(0 - n) ELSE NatStr(n)

\* str(x) of a Python float holding an integral value: "510.0"
FloatStr(x) == IntStr(x) \o ".0"

\* Variant: the halving left out (x_pos = 600 - tier_width).
TrueDiv2Missing(n) == n

\* tier_width / 2: true division.  tier_width is a multiple of 180, so the
\* float quotient is the exact integer tier_width \div 2.
TrueDiv2(n) == n \div 2

\* ------------------------------------------------------------- elements
NodeStyle == "rounded=1;whiteSpace=wrap;html=1;arcSize=12;"

EdgeStyle == "edgeStyle=orthogonalEdgeStyle;rounded=0;orthogonalLoop=1;jettySize=auto;html=1;endArrow=classic;endFill=1;"

\* An mxCell with its mxGeometry child; an attribute the element does not
\* carry is "".  The style attribute is fixed by the kind (NodeStyle, EdgeStyle).
Cell(kind, id, value, parent, source, target, x, y, width, height) ==
    [kind |-> kind, id |-> id, value |-> value, parent |-> parent,
     source |-> source, target |-> target, x |-> x, y |-> y,
     width |-> width, height |-> height]

\* self._create_cell(root, id="0") and self._create_cell(root, id="1", parent="0")
StructuralCells ==
    << Cell("plain", "0", "", "", "", "", "", "", "", ""),
       Cell("plain", "1", "", "0", "", "", "", "", "", "") >>

_create_node(root, node_id, label, x, y) ==
    Append(root, Cell("vertex", IntStr(node_id), label, "1", "", "",
                      FloatStr(x), IntStr(y), IntStr(120), IntStr(80)))

\* Variant: the counter is not advanced after a connector.
_create_edge_no_increment(cell_id_counter_in, root, source_node_id, target_node_id, label) ==
    [cell_id_counter |-> cell_id_counter_in,
     root |-> Append(root, Cell("edge", IntStr(cell_id_counter_in), label, "1",
                                IntStr(source_node_id), IntStr(target_node_id),
                                "", "", "", ""))]

\* returns the new counter and the new tree
_create_edge(cell_id_counter_in, root, source_node_id, target_node_id, label) ==
    [cell_id_counter |-> cell_id_counter_in + 1,
     root |-> Append(root, Cell("edge", IntStr(cell_id_counter_in), label, "1",
                                IntStr(source_node_id), IntStr(target_node_id),
                                "", "", "", ""))]

\* ----------------------------------------------------------- tier table
tiers == [t \in {"user", "generic_client", "aws.network.route53",
                 "aws.network.elb_application_load_balancer",
                 "aws.compute.ec2_auto_scaling",
                 "aws.database.rds_postgresql_instance", "aws.storage.s3"} |->
            CASE t \in {"user", "generic_client"} -> 0
              [] t = "aws.network.route53" -> 1
              [] t = "aws.network.elb_application_load_balancer" -> 2
              [] t = "aws.compute.ec2_auto_scaling" -> 3
              [] OTHER -> 4]

\* tiers.get(node['type'], 3)
TierOf(type) == IF type \in DOMAIN tiers THEN tiers[type] ELSE 3

EmptyTiers == [i \in 0..4 |-> <<>>]

\* Variant: insert(0, node) in place of append(node).
RECURSIVE PartitionNodesPrepend(_, _, _)
PartitionNodesPrepend(nodes, i, acc) ==
    IF i > Len(nodes) THEN [raised |-> FALSE, nodes_in_tier |-> acc]
    ELSE IF nodes[i].type = Absent THEN [raised |-> TRUE, nodes_in_tier |-> acc]
    ELSE PartitionNodesPrepend(nodes, i + 1,
                        [acc EXCEPT ![TierOf(nodes[i].type)] = <<nodes[i]>> \o @])

\* for node in data.get('nodes', []): nodes_in_tier[tier].append(node)
\* node['type'] raises KeyError on a node without the key.
RECURSIVE PartitionNodes(_, _, _)
PartitionNodes(nodes, i, acc) ==
    IF i > Len(nodes) THEN [raised |-> FALSE, nodes_in_tier |-> acc]
    ELSE IF nodes[i].type = Absent THEN [raised |-> TRUE, nodes_in_tier |-> acc]
    ELSE PartitionNodes(nodes, i + 1,
                        [acc EXCEPT ![TierOf(nodes[i].type)] = Append(@, nodes[i])])

\* ------------------------------------------------------------ id map
EmptyMap == [k \in {} |-> 0]

MapPut(m, k, v) == [x \in (DOMAIN m) \cup {k} |-> IF x = k THEN v ELSE m[x]]

\* dict.get(k): the value in a one-element tuple, or the empty tuple for None
MapGet(m, k) == IF k \in DOMAIN m THEN <<m[k]>> ELSE <<>>

\* Variant: the first identifier handed out counts as false, as it would
\* with a counter seeded at a falsy value.
TruthyFirstIdFalsy(o) == o # <<>> /\ o[1] # 2

\* truth value of "None or an int" as Python's `and` tests it
Truthy(o) == o # <<>> /\ o[1] # 0

\* --------------------------------------------------------------- layout
\* Engine state while generate_xml_string runs: the instance counter, the
\* locals node_id_map, y_pos and root, and whether a KeyError has been raised.

\* for node in nodes_in_tier[i]: ... (lines 152-157)
\* node['id'] is read before the counter moves, node['label'] after it.
RECURSIVE PlaceNodes(_, _, _, _)
PlaceNodes(st, tier_nodes, j, x_pos) ==
    IF j > Len(tier_nodes) THEN st
    ELSE LET node == tier_nodes[j]
             cell_id == st.cell_id_counter
         IN  IF node.id = Absent THEN [st EXCEPT !.raised = TRUE]
             ELSE LET st1 == [st EXCEPT !.node_id_map = MapPut(@, node.id, cell_id),
                                        !.cell_id_counter = @ + 1]
                  IN  IF node.label = Absent THEN [st1 EXCEPT !.raised = TRUE]
                      ELSE PlaceNodes([st1 EXCEPT !.root =
                                          _create_node(@, cell_id, node.label, x_pos, st.y_pos)],
                                      tier_nodes, j + 1, x_pos + 180)

\* Variant: `if tier_count <= 1: continue`.
RECURSIVE LayoutTiersSkipSingle(_, _, _)
LayoutTiersSkipSingle(st, nodes_in_tier, i) ==
    IF i > 4 THEN st
    ELSE LET tier_count == Len(nodes_in_tier[i])
             tier_width == tier_count * 180
         IN  IF tier_count <= 1 THEN LayoutTiersSkipSingle(st, nodes_in_tier, i + 1)
             ELSE LET st1 == PlaceNodes(st, nodes_in_tier[i], 1, 600 - TrueDiv2(tier_width))
                  IN  IF st1.raised THEN st1
                      ELSE LayoutTiersSkipSingle([st1 EXCEPT !.y_pos = @ + 140],
                                                 nodes_in_tier, i + 1)

\* Variant: y_pos advances for an empty tier too.
RECURSIVE LayoutTiersAlwaysAdvance(_, _, _)
LayoutTiersAlwaysAdvance(st, nodes_in_tier, i) ==
    IF i > 4 THEN st
    ELSE LET tier_count == Len(nodes_in_tier[i])
             tier_width == tier_count * 180
             st1 == PlaceNodes(st, nodes_in_tier[i], 1, 600 - TrueDiv2(tier_width))
         IN  IF st1.raised THEN st1
             ELSE LayoutTiersAlwaysAdvance([st1 EXCEPT !.y_pos = @ + 140],
                                           nodes_in_tier, i + 1)

\* for i in range(5): ... (lines 147-158)
RECURSIVE LayoutTiers(_, _, _)
LayoutTiers(st, nodes_in_tier, i) ==
    IF i > 4 THEN st
    ELSE LET tier_count == Len(nodes_in_tier[i])
             tier_width == tier_count * 180
         IN  IF tier_count = 0 THEN LayoutTiers(st, nodes_in_tier, i + 1)
             ELSE LET st1 == PlaceNodes(st, nodes_in_tier[i], 1, 600 - TrueDiv2(tier_width))
                  IN  IF st1.raised THEN st1
                      ELSE LayoutTiers([st1 EXCEPT !.y_pos = @ + 140], nodes_in_tier, i + 1)

\* edge.get('label', '')
EdgeLabel(edge) == IF edge.label = Absent THEN "" ELSE edge.label

\* Variant: `if source_cell_id:`, the target written as str(None) when unmapped.
RECURSIVE ConnectEdgesSourceOnly(_, _, _)
ConnectEdgesSourceOnly(st, edges, i) ==
    IF i > Len(edges) THEN st
    ELSE LET edge == edges[i]
             source_cell_id == MapGet(st.node_id_map, edge.source)
             target_cell_id == MapGet(st.node_id_map, edge.target)
         IN  IF Truthy(source_cell_id)
             THEN ConnectEdgesSourceOnly(
                      [st EXCEPT !.cell_id_counter = @ + 1,
                                 !.root = Append(@, Cell("edge", IntStr(st.cell_id_counter),
                                     EdgeLabel(edge), "1", IntStr(source_cell_id[1]),
                                     IF target_cell_id = <<>> THEN "None"
                                     ELSE IntStr(target_cell_id[1]), "", "", "", ""))],
                      edges, i + 1)
             ELSE ConnectEdgesSourceOnly(st, edges, i + 1)

\* for edge in data.get('edges', []): ... (lines 160-164)
RECURSIVE ConnectEdges(_, _, _)
ConnectEdges(st, edges, i) ==
    IF i > Len(edges) THEN st
    ELSE LET edge == edges[i]
             source_cell_id == MapGet(st.node_id_map, edge.source)
             target_cell_id == MapGet(st.node_id_map, edge.target)
         IN  IF Truthy(source_cell_id) /\ Truthy(target_cell_id)
             THEN LET r == _create_edge(st.cell_id_counter, st.root, source_cell_id[1],
                                        target_cell_id[1], EdgeLabel(edge))
                  IN  ConnectEdges([st EXCEPT !.cell_id_counter = r.cell_id_counter,
                                              !.root = r.root], edges, i + 1)
             ELSE ConnectEdges(st, edges, i + 1)

\* -------------------------------------------------------- serialisation
\* ET.tostring, minidom.parseString, toprettyxml(indent="  "): one element
\* per line, attributes in insertion order, two spaces per nesting level.
\* (The attribute values of the model hold none of & < > ", which minidom
\* would escape.)
VertexOpen == "        <mxCell id=\""

ValueAttr == "\" value=\""

VertexMid == "\" style=\"" \o NodeStyle \o "\" parent=\"1\" vertex=\"1\">\n          <mxGeometry x=\""

EdgeMid == "\" style=\"" \o EdgeStyle \o "\" parent=\"1\" edge=\"1\" source=\""

EdgeClose == "\">\n          <mxGeometry relative=\"1\" as=\"geometry\"/>\n        </mxCell>\n"

VertexClose == "\" as=\"geometry\"/>\n        </mxCell>\n"

RenderCell(c) ==
    CASE c.kind = "vertex" ->
            VertexOpen \o c.id \o ValueAttr \o c.value \o VertexMid \o c.x \o "\" y=\"" \o c.y
              \o "\" width=\"" \o c.width \o "\" height=\"" \o c.height \o VertexClose
      [] c.kind = "edge" ->
            VertexOpen \o c.id \o ValueAttr \o c.value \o EdgeMid \o c.source
              \o "\" target=\"" \o c.target \o EdgeClose
      [] OTHER ->
            VertexOpen \o c.id
              \o (IF c.parent = "" THEN "" ELSE "\" parent=\"" \o c.parent) \o "\"/>\n"

RECURSIVE RenderCells(_, _)
RenderCells(root, i) ==
    IF i > Len(root) THEN "" ELSE RenderCell(root[i]) \o RenderCells(root, i + 1)

XmlHead ==
    "<?xml version=\"1.0\" ?>\n<mxfile host=\"app.diagrams.net\" agent=\"doodle-ai\">\n"
      \o "  <diagram id=\"diagram-1\" name=\"Page-1\">\n"
      \o "    <mxGraphModel dx=\"1400\" dy=\"800\" grid=\"1\" gridSize=\"10\" guides=\"1\""
      \o " tooltips=\"1\" connect=\"1\" arrows=\"1\">\n      <root>\n"

XmlTail == "      </root>\n    </mxGraphModel>\n  </diagram>\n</mxfile>\n"

toprettyxml(root) == XmlHead \o RenderCells(root, 1) \o XmlTail

\* ------------------------------------------------- generate_xml_string
\* Variant: the reset left out.
ResetCounterKept(cell_id_counter_in) == cell_id_counter_in

\* self.cell_id_counter = 2 # Reset for each invocation
ResetCounter(cell_id_counter_in) == 2

\* The whole call: the engine state it ends in, and the text it returns
\* (xml is "" when the call raised).
generate_xml_string(cell_id_counter_in, data) ==
    LET st0 == [raised |-> FALSE, cell_id_counter |-> ResetCounter(cell_id_counter_in),
                node_id_map |-> EmptyMap, y_pos |-> 40, root |-> StructuralCells]
        part == PartitionNodes(data.nodes, 1, EmptyTiers)
        st1 == IF part.raised THEN [st0 EXCEPT !.raised = TRUE]
               ELSE LayoutTiers(st0, part.nodes_in_tier, 0)
        st2 == IF st1.raised THEN st1 ELSE ConnectEdges(st1, data.edges, 1)
    IN  [raised |-> st2.raised, cell_id_counter |-> st2.cell_id_counter,
         node_id_map |-> st2.node_id_map, root |-> st2.root,
         nodes_in_tier |-> part.nodes_in_tier,
         xml |-> IF st2.raised THEN "" ELSE toprettyxml(st2.root)]

\* ---------------------------------------------------------------- state
VARIABLES
    initialized,      \* bedrock_processor, diagram_generator and s3_client are all set
    DIAGRAM_BUCKET,   \* os.environ.get('DIAGRAM_BUCKET'), "" when unset
    pc,               \* "idle" between requests, else the handler's position
    event,            \* what the request body holds
    bedrock_status,   \* get_architecture_json in this request: "none", "ok", "failed"
    arch_data,        \* the graph the collaborator returned
    gen_status,       \* generate_xml_string in this request: "none", "returned", "raised"
    cell_id_counter,  \* diagram_generator.cell_id_counter
    node_id_map,      \* locals of the latest generate_xml_string call
    root,
    xml_content,      \* the text generate_xml_string returned
    put_calls,        \* s3_client.put_object calls of this request
    s3_body,          \* Body stored under this request's key, "" when none
    response,         \* statusCode the handler returned, 0 while it runs
    remembered        \* history: the graph and text of one invocation that returned,
                      \* whether a later request has begun since, and whether an
                      \* invocation has raised since

vars == <<initialized, DIAGRAM_BUCKET, pc, event, bedrock_status, arch_data, gen_status,
          cell_id_counter, node_id_map, root, xml_content, put_calls, s3_body, response,
          remembered>>

config == <<initialized, DIAGRAM_BUCKET>>

engine == <<cell_id_counter, node_id_map, root>>

\* Global initialisation (lines 171-180) and DiagramGenerator.__init__
Init ==
    /\ initialized \in BOOLEAN
    /\ DIAGRAM_BUCKET \in {"", "diagrams"}
    /\ pc = "idle"
    /\ event = "none"
    /\ bedrock_status = "none"
    /\ arch_data = NoGraph
    /\ gen_status = "none"
    /\ cell_id_counter = 2
    /\ node_id_map = EmptyMap
    /\ root = <<>>
    /\ xml_content = ""
    /\ put_calls = 0
    /\ s3_body = ""
    /\ response = 0
    /\ remembered = [set |-> FALSE, data |-> NoGraph, xml |-> "", later |-> FALSE,
                     aborted |-> FALSE]

\* A request arrives: lambda_handler is entered with fresh locals and a
\* fresh object key (context.aws_request_id).
Invoke ==
    /\ pc = "idle"
    /\ pc' = "handler"
    /\ event' \in {"invalid_json", "no_text_input", "text_input"}
    /\ bedrock_status' = "none"
    /\ arch_data' = NoGraph
    /\ gen_status' = "none"
    /\ node_id_map' = EmptyMap
    /\ root' = <<>>
    /\ xml_content' = ""
    /\ put_calls' = 0
    /\ s3_body' = ""
    /\ response' = 0
    /\ remembered' = [remembered EXCEPT !.later = remembered.set]
    /\ UNCHANGED <<config, cell_id_counter>>

Return(statusCode) ==
    /\ response' = statusCode
    /\ pc' = "idle"

\* lines 193-194
ReturnNotInitialized ==
    /\ pc = "handler"
    /\ ~initialized
    /\ Return(500)
    /\ UNCHANGED <<config, event, bedrock_status, arch_data, gen_status, engine,
                   xml_content, put_calls, s3_body, remembered>>

\* lines 197-200
ReturnNoBucket ==
    /\ pc = "handler"
    /\ initialized
    /\ DIAGRAM_BUCKET = ""
    /\ Return(500)
    /\ UNCHANGED <<config, event, bedrock_status, arch_data, gen_status, engine,
                   xml_content, put_calls, s3_body, remembered>>

Configured == pc = "handler" /\ initialized /\ DIAGRAM_BUCKET # ""

\* line 204 raising json.JSONDecodeError, lines 247-249
ReturnInvalidJson ==
    /\ Configured
    /\ event = "invalid_json"
    /\ Return(400)
    /\ UNCHANGED <<config, event, bedrock_status, arch_data, gen_status, engine,
                   xml_content, put_calls, s3_body, remembered>>

\* lines 207-209
ReturnNoTextInput ==
    /\ Configured
    /\ event = "no_text_input"
    /\ Return(400)
    /\ UNCHANGED <<config, event, bedrock_status, arch_data, gen_status, engine,
                   xml_content, put_calls, s3_body, remembered>>

\* Variant: the collaborator's failure swallowed, the handler going on with
\* an empty graph.
BedrockFailsSwallowed ==
    /\ pc = "handler" /\ initialized /\ DIAGRAM_BUCKET # ""
    /\ event = "text_input"
    /\ bedrock_status' = "failed"
    /\ LET r == generate_xml_string(cell_id_counter, NoGraph)
       IN  /\ cell_id_counter' = r.cell_id_counter
           /\ node_id_map' = r.node_id_map
           /\ root' = r.root
           /\ xml_content' = r.xml
    /\ gen_status' = "returned"
    /\ pc' = "put"
    /\ UNCHANGED <<config, event, arch_data, put_calls, s3_body, response, remembered>>

\* line 213 raising (lines 90-95), caught at lines 253-255
BedrockFails ==
    /\ Configured
    /\ event = "text_input"
    /\ bedrock_status' = "failed"
    /\ Return(500)
    /\ UNCHANGED <<config, event, arch_data, gen_status, engine,
                   xml_content, put_calls, s3_body, remembered>>

\* line 213 returning the graph g, then line 216
Generate(g) ==
    /\ bedrock_status' = "ok"
    /\ arch_data' = g
    /\ LET r == generate_xml_string(cell_id_counter, g)
       IN  /\ cell_id_counter' = r.cell_id_counter
           /\ node_id_map' = r.node_id_map
           /\ root' = r.root
           /\ xml_content' = r.xml
           /\ IF r.raised
              THEN /\ gen_status' = "raised"      \* KeyError, caught at lines 253-255
                   /\ Return(500)
                   /\ remembered' = [remembered EXCEPT !.aborted = remembered.set]
              ELSE /\ gen_status' = "returned"
                   /\ pc' = "put"
                   /\ response' = 0
                   /\ UNCHANGED remembered
    /\ UNCHANGED <<config, event, put_calls, s3_body>>

GenerateXml ==
    /\ Configured
    /\ event = "text_input"
    /\ \E g \in Graphs : Generate(g)

GenerateXmlReuse ==
    /\ Configured
    /\ event = "text_input"
    /\ \E g \in ReuseGraphs : Generate(g)

\* lines 222-245
PutObjectOk ==
    /\ pc = "put"
    /\ put_calls' = put_calls + 1
    /\ s3_body' = xml_content
    /\ Return(200)
    /\ UNCHANGED <<config, event, bedrock_status, arch_data, gen_status, engine,
                   xml_content, remembered>>

\* line 222 raising ClientError, lines 250-252
PutObjectFails ==
    /\ pc = "put"
    /\ put_calls' = put_calls + 1
    /\ Return(500)
    /\ UNCHANGED <<config, event, bedrock_status, arch_data, gen_status, engine,
                   xml_content, s3_body, remembered>>

\* History only: keep the graph and text of an invocation that returned.
Remember ==
    /\ pc \in {"put", "idle"}
    /\ gen_status = "returned"
    /\ ~remembered.set
    /\ remembered' = [set |-> TRUE, data |-> arch_data, xml |-> xml_content,
                      later |-> FALSE, aborted |-> FALSE]
    /\ UNCHANGED <<config, pc, event, bedrock_status, arch_data, gen_status, engine,
                   xml_content, put_calls, s3_body, response>>

Next ==
    \/ Invoke
    \/ ReturnNotInitialized
    \/ ReturnNoBucket
    \/ ReturnInvalidJson
    \/ ReturnNoTextInput
    \/ BedrockFails
    \/ GenerateXml
    \/ PutObjectOk
    \/ PutObjectFails

Spec == Init /\ [][Next]_vars

NextReuse ==
    \/ Invoke
    \/ ReturnNotInitialized
    \/ ReturnNoBucket
    \/ ReturnInvalidJson
    \/ ReturnNoTextInput
    \/ BedrockFails
    \/ GenerateXmlReuse
    \/ PutObjectOk
    \/ PutObjectFails
    \/ Remember

SpecReuse == Init /\ [][NextReuse]_vars

\* =================================================================
\* Properties
\* =================================================================
IsVertex(c) == c.kind = "vertex"

IsEdge(c) == c.kind = "edge"

Shapes == SelectSeq(root, IsVertex)

Connectors == SelectSeq(root, IsEdge)

Returned == gen_status = "returned"

InputNodes == arch_data.nodes

InputEdges == arch_data.edges

InputNodeIds == { InputNodes[m].id : m \in 1..Len(InputNodes) }

Resolves(edge) == edge.source \in InputNodeIds /\ edge.target \in InputNodeIds

ResolvedEdges == SelectSeq(InputEdges, Resolves)

ShapeIds == { Shapes[p].id : p \in 1..Len(Shapes) }

\* The input nodes of tier t, in input order, and the nodes in the order of
\* increasing tier.
NodesOfTier(t) == SelectSeq(InputNodes, LAMBDA n : TierOf(n.type) = t)

ExpectedOrder ==
    NodesOfTier(0) \o NodesOfTier(1) \o NodesOfTier(2) \o NodesOfTier(3) \o NodesOfTier(4)

\* How many input nodes lie in a tier below t, and how many tiers below t
\* hold a node.
NodesBelow(t) == Cardinality({ m \in 1..Len(InputNodes) : TierOf(InputNodes[m].type) < t })

RowsBelow(t) ==
    Cardinality({ u \in 0..4 : u < t /\ \E m \in 1..Len(InputNodes) : TierOf(InputNodes[m].type) = u })

\* C1: in a returned document every connector's source and target are ids of
\* shapes of the same document, and the connectors are, in order, exactly the
\* edges whose two endpoints are node ids of the graph: an edge with an
\* unknown endpoint yields no connector.
C1_NoDanglingConnector ==
    Returned =>
        /\ \A q \in 1..Len(Connectors) :
              Connectors[q].source \in ShapeIds /\ Connectors[q].target \in ShapeIds
        /\ Len(Connectors) = Len(ResolvedEdges)
        /\ \A q \in 1..Len(Connectors) :
              /\ Connectors[q].source = IntStr(node_id_map[ResolvedEdges[q].source])
              /\ Connectors[q].target = IntStr(node_id_map[ResolvedEdges[q].target])

C1_Witness ==
    /\ Returned
    /\ Len(InputEdges) = 2
    /\ Len(Connectors) = 1
    /\ InputEdges[1].source = "ghost"
    /\ Connectors[1].source = "2"
    /\ Connectors[1].target = "3"

\* C2: a returned document holds exactly one shape per input node, whatever
\* the node's type: the shapes' labels are the nodes' labels, each as often.
C2_OneShapePerNode ==
    Returned =>
        /\ Len(Shapes) = Len(InputNodes)
        /\ \A n \in NodeValues :
              Cardinality({ p \in 1..Len(Shapes) : Shapes[p].value = n.label })
                = Cardinality({ m \in 1..Len(InputNodes) : InputNodes[m].label = n.label })

C2_Witness ==
    /\ Returned
    /\ Len(InputNodes) = 2
    /\ InputNodes[1].type = "custom.queue"
    /\ InputNodes[2].type = "user"
    /\ Len(Shapes) = 2

\* C3: a returned document holds at most one connector per input edge, and
\* as many connectors as edges exactly when every edge's source and target
\* are ids of input nodes.
C3_ConnectorCount ==
    Returned =>
        /\ Len(Connectors) <= Len(InputEdges)
        /\ (Len(Connectors) = Len(InputEdges)) <=>
              (\A e \in 1..Len(InputEdges) : Resolves(InputEdges[e]))

C3_Witness ==
    /\ Returned
    /\ Len(InputEdges) = 2
    /\ InputEdges[1] = InputEdges[2]
    /\ InputEdges[1].source = InputEdges[1].target
    /\ Len(Connectors) = 2

\* C4: an invocation that returns for the graph of an earlier invocation
\* returns the earlier invocation's text, whatever ran in between.
C4_SameGraphSameText ==
    (remembered.later /\ Returned /\ arch_data = remembered.data)
        => xml_content = remembered.xml

C4_Witness ==
    /\ remembered.later
    /\ remembered.aborted
    /\ Returned
    /\ arch_data = remembered.data
    /\ Len(Shapes) = 1
    /\ Len(Connectors) = 1
    /\ xml_content = remembered.xml

\* C5: in a returned document the structural cells hold ids 0 and 1, every
\* shape precedes every connector, the k-th element after the structural
\* cells holds id k + 1, no id occurs twice, and the ids end at
\* 1 + #shapes + #connectors with the counter one past them.
C5_IdsDenseAndUnique ==
    Returned =>
        /\ root[1].id = "0" /\ root[2].id = "1"
        /\ root = StructuralCells \o Shapes \o Connectors
        /\ \A k \in 3..Len(root) : root[k].id = IntStr(k - 1)
        /\ \A k, l \in 1..Len(root) : root[k].id = root[l].id => k = l
        /\ Len(root) = 2 + Len(InputNodes) + Len(ResolvedEdges)
        /\ cell_id_counter = 2 + Len(Shapes) + Len(Connectors)

C5_Witness ==
    /\ Returned
    /\ Len(Shapes) = 2
    /\ Shapes[1].y # Shapes[2].y
    /\ Len(InputEdges) = 2
    /\ ~Resolves(InputEdges[1])
    /\ Len(Connectors) = 1
    /\ Connectors[1].id = "4"
    /\ cell_id_counter = 5

\* C6: the p-th shape is the p-th node in tier order; with k nodes in its
\* tier and i nodes of that tier placed before it, its x is
\* 600 - (k*180)/2 + i*180.
C6_TierCentering ==
    Returned =>
        \A p \in 1..Len(Shapes) :
            LET t == TierOf(ExpectedOrder[p].type)
                k == Len(NodesOfTier(t))
                i == p - 1 - NodesBelow(t)
            IN  Shapes[p].x = FloatStr(600 - ((k * 180) \div 2) + i * 180)

C6_Witness ==
    /\ Returned
    /\ Len(Shapes) = 2
    /\ Shapes[1].y = Shapes[2].y
    /\ Shapes[1].x = "420.0"
    /\ Shapes[2].x = "600.0"

\* C7: a shape of the j-th non-empty tier (j from 0) has y = 40 + 140*j.
C7_EmptyTierSkipped ==
    Returned =>
        \A p \in 1..Len(Shapes) :
            Shapes[p].y = IntStr(40 + 140 * RowsBelow(TierOf(ExpectedOrder[p].type)))

C7_Witness ==
    /\ Returned
    /\ Len(InputNodes) = 2
    /\ InputNodes[1].type = "user"
    /\ InputNodes[2].type = "aws.network.elb_application_load_balancer"
    /\ Shapes[1].y = "40"
    /\ Shapes[2].y = "180"

\* C8: put_object is called at most once in a request, and only once the
\* collaborator has returned a graph and generate_xml_string has returned
\* its text, which is what is stored; a request whose collaborator failed
\* never runs the generator, writes nothing and ends with a status other
\* than 200; a 200 response is given only after the write.
C8_WriteOnlyAfterSerialisation ==
    /\ put_calls <= 1
    /\ put_calls > 0 => (bedrock_status = "ok" /\ Returned /\ s3_body \in {"", xml_content})
    /\ s3_body # "" => put_calls = 1
    /\ bedrock_status = "failed" =>
          /\ gen_status = "none" /\ root = <<>> /\ xml_content = ""
          /\ put_calls = 0 /\ s3_body = ""
          /\ pc = "idle" /\ response \notin {0, 200}
    /\ response = 200 => (put_calls = 1 /\ s3_body = xml_content /\ s3_body # "")

C8_Witness ==
    /\ response = 200
    /\ pc = "idle"
    /\ put_calls = 1
    /\ Len(Connectors) = 2
    /\ s3_body = xml_content

\* C9: when generate_xml_string raises on a node without id, label or type,
\* no shape has been placed, no identifier allocated and no text returned.
C9_RejectedBeforeLayout ==
    gen_status = "raised" =>
        /\ Len(Shapes) = 0
        /\ cell_id_counter = 2
        /\ node_id_map = EmptyMap
        /\ xml_content = ""

\* C10: every type has a tier in 0..4, the table's for a type of the table
\* and 3 otherwise; the shapes are the nodes in increasing tier order and,
\* within a tier, in input order; two shapes share a row exactly when their
\* nodes share a tier.
C10_StableTierOrder ==
    /\ \A t \in InputTypes \cup DOMAIN tiers :
          /\ TierOf(t) \in 0..4
          /\ t \in DOMAIN tiers => TierOf(t) = tiers[t]
          /\ t \notin DOMAIN tiers => TierOf(t) = 3
    /\ Returned =>
          /\ Len(Shapes) = Len(ExpectedOrder)
          /\ \A p \in 1..Len(Shapes) : Shapes[p].value = ExpectedOrder[p].label
          /\ \A p, q \in 1..Len(Shapes) :
                (Shapes[p].y = Shapes[q].y)
                  <=> (TierOf(ExpectedOrder[p].type) = TierOf(ExpectedOrder[q].type))

C10_Witness ==
    /\ Returned
    /\ Len(InputNodes) = 2
    /\ InputNodes[1].type = "custom.queue"
    /\ InputNodes[2].type = "aws.compute.ec2_auto_scaling"
    /\ Shapes[1].value = InputNodes[1].label
    /\ Shapes[1].id = "2"
    /\ Shapes[2].id = "3"
    /\ Shapes[1].y = Shapes[2].y

====
